---- MODULE Spec2Model ----
(***************************************************************************)
(* OTP / password authentication core of the billing back end             *)
(* (src/apps/auth_app/views.py): SendOTP.post and VerifyOTP.post run as    *)
(* request-parallel workers over two shared stores, the Django cache      *)
(* (send counter, verify-failure counter, verify-lockout flag) and the    *)
(* OTP table.  Every cache operation and every database statement is one  *)
(* atomic step of a worker; a worker's local computation belongs to the   *)
(* step of the store operation before it.                                 *)
(*                                                                         *)
(* Time is a discrete clock; one reading of timezone.now() is the value   *)
(* of clock at that step, so two steps without a Tick between them read   *)
(* the same instant.  The durations of the source (5 minutes, 300 s,      *)
(* 3600 s) are instantiated as small numbers of ticks that keep their     *)
(* order: OTP_EXPIRY_MINUTES <= LOCK_DURATION < RATE_LIMIT_WINDOW.         *)
(***************************************************************************)
EXTENDS Integers, FiniteSets, Sequences, TLC

\* ------------------------------------------------------------- bounds
NumWorkers == 2          \* concurrent request workers
MaxOtps == 2             \* Spec: OTP rows ever created
MaxTime == 2             \* Spec: last clock reading
MaxOtpsSeq == 2          \* SpecSeq: OTP rows ever created
MaxTimeSeq == 3          \* SpecSeq: last clock reading
MaxOtpsSend == 3         \* SpecSend: OTP rows ever created
MaxTimeSend == 4         \* SpecSend: last clock reading
MaxOtpsAuth == 2         \* SpecAuth: OTP rows ever created
MaxTimeAuth == 2         \* SpecAuth: last clock reading
MaxOtpsEvict == 2        \* SpecEvict: OTP rows ever created
MaxTimeEvict == 1        \* SpecEvict: last clock reading
MaxOtpsRace == 3         \* SpecRace: OTP rows ever created
MaxTimeRace == 1         \* SpecRace: last clock reading
MaxOtpsLive == 2         \* SpecLive: OTP rows ever created
MaxTimeLive == 1         \* SpecLive: last clock reading

\* settings of the deployment, instantiated small (defaults 5, 5, 5 min, 300 s)
MAX_OTP_PER_HOUR == 2    \* settings.OTP_MAX_PER_HOUR
MAX_VERIFY_ATTEMPTS == 2 \* settings.OTP_MAX_VERIFY_ATTEMPTS
OTP_EXPIRY_MINUTES == 2  \* settings.OTP_EXPIRES_MINUTES, in ticks
LOCK_DURATION == 2       \* settings.OTP_LOCK_DURATION_SECONDS, in ticks
RATE_LIMIT_WINDOW == 3   \* 60 * 60 seconds, in ticks
ATTEMPTS_WINDOW == 3     \* the literal 3600 of the failure counter, in ticks

Workers == 1..NumWorkers
Phones == {1, 2}
Codes == {1, 2}
Ids == 1..(MaxOtps + MaxOtpsSeq + MaxOtpsSend + MaxOtpsAuth)
NoRole == ""
RequestedRoles == {NoRole, "SALES_EXECUTIVE"}

\* ------------------------------------------------------------- users
\* A row of the user table as the flows read it; NoUser: no row for the phone.
NoUser == [id |-> 0, is_active |-> FALSE, is_super_admin |-> FALSE, roles |-> {}]

Manager(ph) ==
    [id |-> 100 + ph, is_active |-> TRUE, is_super_admin |-> FALSE,
     roles |-> {"MANAGER"}]

\* the bootstrap account: the super-admin flag and no role assignment
SuperAdmin(ph) ==
    [id |-> 200 + ph, is_active |-> TRUE, is_super_admin |-> TRUE, roles |-> {}]

\* except User.DoesNotExist
DoesNotExist(user) == user = NoUser

\* if not user.is_active
InactiveMutNever(user) == FALSE

Inactive(user) == ~user.is_active

\* ------------------------------------------------------------- state
VARIABLES
    clock,      \* timezone.now()
    cache,      \* django.core.cache: key -> [val, exp]; exp = 0: no entry
    otps,       \* OTP table: id -> row
    nextId,     \* next OTP row id
    users,      \* User table: phone -> row
    procs,      \* per worker: position in post() and its locals
    resp,       \* the Response returned by the step just taken, if any
    last,       \* the request that completed last, while no request has arrived since
    sent,       \* per phone: sends accepted since its send counter last ran out
    tripped     \* (phone, code) pairs whose lockout was set and not yet forgiven

vars == <<clock, cache, otps, nextId, users, procs, resp, last, sent, tripped>>

\* User.objects.get(phone=phone); NoUser stands for User.DoesNotExist
GetUserMutOrCreate(ph) == IF users[ph] = NoUser THEN Manager(ph) ELSE users[ph]

GetUser(ph) == users[ph]

\* cache keys: RATE_LIMIT_KEY, verify_attempts_key, verify_lock_key
RateKey(ph) == <<"otp_rate", ph, 0>>
AttemptsKeyMutPhoneOnly(ph, c) == <<"otp_verify_attempts", ph, 1>>

AttemptsKey(ph, c) == <<"otp_verify_attempts", ph, c>>
LockKey(ph, c) == <<"otp_verify_lock", ph, c>>

CacheKeys ==
    {RateKey(ph) : ph \in Phones}
        \cup {AttemptsKey(ph, c) : ph \in Phones, c \in Codes}
        \cup {LockKey(ph, c) : ph \in Phones, c \in Codes}

NoEntry == [val |-> 0, exp |-> 0]

\* cache.get(key, default): an entry past its timeout is not there
CacheGet(k, default) ==
    IF cache[k].exp > clock THEN cache[k].val ELSE default

\* cache.set(key, value, timeout): the timeout counts from this call
CacheSet(k, v, timeout) ==
    [cache EXCEPT ![k] = [val |-> v, exp |-> clock + timeout]]

\* cache.delete(key), for a set of keys
CacheDeleteMutKeep(ks) == cache

CacheDelete(ks) ==
    [k \in CacheKeys |-> IF k \in ks THEN NoEntry ELSE cache[k]]

\* ------------------------------------------------------------- OTP rows
\* uses counts the executions of mark_used() on the row
NoOtp == [phone |-> 0, code |-> 0, expires_at |-> 0, used |-> FALSE,
          live |-> FALSE, uses |-> 0]

\* the row lock of select_for_update: held by the worker between its SELECT
\* and the commit that ends transaction.atomic()
HoldsLockMutLeak(q, i) ==
    otps[i].live /\ ((procs[q].pc = "v_mark" /\ procs[q].rec = i) \/ otps[i].used)

HoldsLock(q, i) == procs[q].pc = "v_mark" /\ procs[q].rec = i

LockedByOtherMutNoLock(p, i) == FALSE

LockedByOther(p, i) == \E q \in Workers \ {p} : HoldsLock(q, i)

\* SendOTP's filter(phone=phone, used=False, expires_at__gt=now)
ActiveFor(o, ph, now) ==
    o.live /\ o.phone = ph /\ ~o.used /\ o.expires_at > now

\* VerifyOTP's get(phone=phone, code=code, used=False, expires_at__gte=now)
MatchesMutIgnoreUsed(o, ph, c, now) ==
    o.live /\ o.phone = ph /\ o.code = c /\ o.expires_at >= now

MatchesMutIgnoreExpiry(o, ph, c, now) ==
    o.live /\ o.phone = ph /\ o.code = c /\ ~o.used

Matches(o, ph, c, now) ==
    o.live /\ o.phone = ph /\ o.code = c /\ ~o.used /\ o.expires_at >= now

MatchingIds(ph, c, now) == {i \in Ids : Matches(otps[i], ph, c, now)}

\* OTP.delete_old(): rows that are used or past their expiry
IsOld(o) == o.live /\ (o.used \/ o.expires_at < clock)

OldIds == {i \in Ids : IsOld(otps[i])}

DeleteOldEnabled(p) == \A i \in OldIds : ~LockedByOther(p, i)

DeleteOld(table) == [i \in Ids |-> IF IsOld(table[i]) THEN NoOtp ELSE table[i]]

\* ------------------------------------------------------------- workers
Idle == [pc |-> "idle", phone |-> 0, code |-> 0, counter |-> 0, now |-> 0,
         rec |-> 0, prev |-> {}, newer |-> 0]

NoResp == [kind |-> "", phone |-> 0, code |-> 0, role |-> NoRole, result |-> "",
           rec |-> 0, uid |-> 0, prev |-> {}, newer |-> 0]

NoLast == [kind |-> "", phone |-> 0, code |-> 0, at |-> 0]

\* the response of worker p's request
Response(kind, w, code, role, result, rec, uid) ==
    [kind |-> kind, phone |-> w.phone, code |-> code, role |-> role,
     result |-> result, rec |-> rec, uid |-> uid, prev |-> w.prev,
     newer |-> w.newer]

Free(p) == procs[p].pc = "idle"

Finish(p) == [procs EXCEPT ![p] = Idle]

\* the user tables a run may start from: every phone has an active user with one
\* role, or phone 1 has no user
UserTables ==
    {[ph \in Phones |-> Manager(ph)],
     [ph \in Phones |-> IF ph = 1 THEN NoUser ELSE Manager(ph)]}

Init ==
    /\ clock = 0
    /\ cache = [k \in CacheKeys |-> NoEntry]
    /\ otps = [i \in Ids |-> NoOtp]
    /\ nextId = 1
    /\ users \in UserTables
    /\ procs = [p \in Workers |-> Idle]
    /\ resp = NoResp
    /\ last = NoLast
    /\ sent = [ph \in Phones |-> 0]
    /\ tripped = {}

\* ------------------------------------------------------------- SendOTP.post
\* if counter >= MAX_OTP_PER_HOUR
RateLimitedMutOffByOne(counter) == counter > MAX_OTP_PER_HOUR

RateLimited(counter) == counter >= MAX_OTP_PER_HOUR

\* the sends in flight that will create a row
SendsInFlight ==
    Cardinality({q \in Workers :
        \/ procs[q].pc \in {"s_user", "s_inval", "s_create"}
        \/ procs[q].pc = "s_set" /\ ~RateLimited(procs[q].counter)})

\* OTP.objects.create_otp(phone, expires_minutes): a fresh unused row
CreateOtp(ph, c) ==
    [phone |-> ph, code |-> c, expires_at |-> clock + OTP_EXPIRY_MINUTES,
     used |-> FALSE, live |-> TRUE, uses |-> 0]

InvalidateMutExtend(table, ph, now) ==
    [i \in Ids |-> IF ActiveFor(table[i], ph, now)
                   THEN [table[i] EXCEPT !.expires_at = now + OTP_EXPIRY_MINUTES]
                   ELSE table[i]]

\* existing_active_otps.update(expires_at=now)
Invalidate(table, ph, now) ==
    [i \in Ids |-> IF ActiveFor(table[i], ph, now)
                   THEN [table[i] EXCEPT !.expires_at = now]
                   ELSE table[i]]

\* the request arrives and reads the send counter: cache.get(cache_key, 0)
StartSend(p, ph, maxOtps) ==
    /\ Free(p)
    /\ RateLimited(CacheGet(RateKey(ph), 0)) \/ nextId + SendsInFlight <= maxOtps
    /\ procs' = [procs EXCEPT ![p] =
           [Idle EXCEPT !.pc = "s_set", !.phone = ph,
                        !.counter = CacheGet(RateKey(ph), 0)]]
    /\ resp' = NoResp
    /\ last' = NoLast
    /\ UNCHANGED <<clock, cache, otps, nextId, users, sent, tripped>>

\* the cache after the rate limit: untouched by a 429, else
\* cache.set(cache_key, counter + 1, RATE_LIMIT_WINDOW)
RateCacheAfterMutCountFirst(ph, counter) ==
    CacheSet(RateKey(ph), counter + 1, RATE_LIMIT_WINDOW)

RateCacheAfter(ph, counter) ==
    IF RateLimited(counter) THEN cache
    ELSE CacheSet(RateKey(ph), counter + 1, RATE_LIMIT_WINDOW)

\* the rate limit: 429, or the counter is raised and the send goes on
SendLimit(p) ==
    /\ procs[p].pc = "s_set"
    /\ cache' = RateCacheAfter(procs[p].phone, procs[p].counter)
    /\ IF RateLimited(procs[p].counter)
       THEN /\ procs' = Finish(p)
            /\ resp' = Response("send", procs[p], 0, NoRole, "RateLimited", 0, 0)
            /\ UNCHANGED sent
       ELSE /\ procs' = [procs EXCEPT ![p].pc = "s_user", ![p].counter = 0]
            /\ resp' = NoResp
            /\ sent' = [sent EXCEPT ![procs[p].phone] = @ + 1]
    /\ UNCHANGED <<clock, otps, nextId, users, last, tripped>>

\* the deactivated-user check, then OTP.delete_old() and now = timezone.now()
SendCheckUser(p) ==
    /\ procs[p].pc = "s_user"
    /\ IF ~DoesNotExist(users[procs[p].phone]) /\ Inactive(users[procs[p].phone])
       THEN /\ procs' = Finish(p)
            /\ resp' = Response("send", procs[p], 0, NoRole, "AccountDisabled", 0, 0)
            /\ UNCHANGED otps
       ELSE /\ DeleteOldEnabled(p)
            /\ otps' = DeleteOld(otps)
            /\ procs' = [procs EXCEPT ![p].pc = "s_inval", ![p].now = clock]
            /\ resp' = NoResp
    /\ UNCHANGED <<clock, cache, nextId, users, last, sent, tripped>>

\* invalidate the phone's active rows: one UPDATE, which waits for a locked row
SendInvalidate(p) ==
    /\ procs[p].pc = "s_inval"
    /\ \A i \in Ids : ActiveFor(otps[i], procs[p].phone, procs[p].now)
                        => ~LockedByOther(p, i)
    /\ otps' = Invalidate(otps, procs[p].phone, procs[p].now)
    /\ procs' = [procs EXCEPT ![p].pc = "s_create", ![p].now = 0]
    /\ resp' = NoResp
    /\ UNCHANGED <<clock, cache, nextId, users, last, sent, tripped>>

\* create the new row with a random code, and answer 201
SendCreate(p, codes) ==
    /\ procs[p].pc = "s_create"
    /\ \E c \in codes :
        /\ otps' = [otps EXCEPT ![nextId] = CreateOtp(procs[p].phone, c)]
        /\ resp' = Response("send", procs[p], c, NoRole, "OtpSent", nextId, 0)
        /\ last' = [kind |-> "send", phone |-> procs[p].phone, code |-> c, at |-> clock]
    /\ procs' = Finish(p)
    /\ nextId' = nextId + 1
    /\ UNCHANGED <<clock, cache, users, sent, tripped>>

\* ------------------------------------------------------------- VerifyOTP.post
\* if verify_attempts >= max_attempts
TooManyAttemptsMutOffByOne(attempts) == attempts > MAX_VERIFY_ATTEMPTS

TooManyAttempts(attempts) == attempts >= MAX_VERIFY_ATTEMPTS

\* the role gate shared by VerifyOTP.post and LoginView.post
HasRoleMutAlways(user, requested_role) == TRUE

HasRole(user, requested_role) ==
    IF requested_role = "SUPERADMIN"
    THEN user.is_super_admin \/ "SUPERADMIN" \in user.roles
    ELSE requested_role \in user.roles

MaxOf(S) == IF S = {} THEN 0 ELSE CHOOSE x \in S : \A y \in S : y <= x

\* the newest row of the phone that carries another code, when the request arrives
NewerOtherCode(ph, c) ==
    MaxOf({i \in Ids : otps[i].live /\ otps[i].phone = ph /\ otps[i].code # c})

\* what the arriving verify follows: "sent", the send that created its code less
\* than the expiry time ago, and "used", the verify that consumed its code, when
\* that request completed last and no other request is in flight; "unlocked", a
\* lockout of its (phone, code) that has run out
PrevOf(p, ph, c) ==
    LET alone == \A q \in Workers \ {p} : Free(q)
        follows(kind) == /\ alone /\ last.kind = kind
                         /\ last.phone = ph /\ last.code = c
    IN  (IF follows("send") /\ clock < last.at + OTP_EXPIRY_MINUTES
         THEN {"sent"} ELSE {})
        \cup (IF follows("verify") THEN {"used"} ELSE {})
        \cup (IF <<ph, c>> \in tripped /\ CacheGet(LockKey(ph, c), 0) = 0
              THEN {"unlocked"} ELSE {})

\* if cache.get(verify_lock_key)
LockedOutMutNever(ph, c) == FALSE

LockedOut(ph, c) == CacheGet(LockKey(ph, c), 0) # 0

\* the request arrives and reads the lockout flag
StartVerify(p, ph, c) ==
    /\ Free(p)
    /\ LET req == [Idle EXCEPT !.phone = ph, !.code = c, !.prev = PrevOf(p, ph, c),
                               !.newer = NewerOtherCode(ph, c)]
       IN IF LockedOut(ph, c)
          THEN /\ UNCHANGED procs
               /\ resp' = Response("verify", req, c, NoRole, "TooManyAttempts", 0, 0)
          ELSE /\ procs' = [procs EXCEPT ![p] = [req EXCEPT !.pc = "v_get"]]
               /\ resp' = NoResp
    /\ last' = NoLast
    /\ UNCHANGED <<clock, cache, otps, nextId, users, sent, tripped>>

\* verify_attempts = cache.get(verify_attempts_key, 0); now = timezone.now()
VerifyGet(p) ==
    /\ procs[p].pc = "v_get"
    /\ LET attempts == CacheGet(AttemptsKey(procs[p].phone, procs[p].code), 0)
       IN procs' = [procs EXCEPT
              ![p].counter = attempts,
              ![p].pc = IF TooManyAttempts(attempts) THEN "v_setlock" ELSE "v_select",
              ![p].now = IF TooManyAttempts(attempts) THEN 0 ELSE clock]
    /\ resp' = NoResp
    /\ UNCHANGED <<clock, cache, otps, nextId, users, last, sent, tripped>>

\* cache.set(verify_lock_key, True, lock_duration) and 429
VerifySetLock(p) ==
    /\ procs[p].pc = "v_setlock"
    /\ cache' = CacheSet(LockKey(procs[p].phone, procs[p].code), 1, LOCK_DURATION)
    /\ procs' = Finish(p)
    /\ resp' = Response("verify", procs[p], procs[p].code, NoRole, "TooManyAttempts", 0, 0)
    /\ tripped' = tripped \cup {<<procs[p].phone, procs[p].code>>}
    /\ UNCHANGED <<clock, otps, nextId, users, last, sent>>

\* OTP.objects.select_for_update().get(...): waits while a matching row is
\* locked; no row: DoesNotExist; several rows: MultipleObjectsReturned, which
\* nothing catches
VerifySelect(p) ==
    /\ procs[p].pc = "v_select"
    /\ LET m == MatchingIds(procs[p].phone, procs[p].code, procs[p].now)
       IN /\ \A i \in m : ~LockedByOther(p, i)
          /\ IF m = {}
             THEN /\ procs' = [procs EXCEPT ![p].pc = "v_fail", ![p].now = 0]
                  /\ resp' = NoResp
             ELSE IF Cardinality(m) = 1
             THEN /\ procs' = [procs EXCEPT ![p].pc = "v_mark", ![p].now = 0,
                                            ![p].counter = 0,
                                            ![p].rec = CHOOSE i \in m : TRUE]
                  /\ resp' = NoResp
             ELSE /\ procs' = Finish(p)
                  /\ resp' = Response("verify", procs[p], procs[p].code, NoRole,
                                      "ServerError", 0, 0)
    /\ UNCHANGED <<clock, cache, otps, nextId, users, last, sent, tripped>>

\* otp_obj.mark_used() and the commit that releases the row
MarkUsed(o) == [o EXCEPT !.used = TRUE, !.uses = o.uses + 1]

VerifyMarkUsed(p) ==
    /\ procs[p].pc = "v_mark"
    /\ otps' = [otps EXCEPT ![procs[p].rec] = MarkUsed(otps[procs[p].rec])]
    /\ procs' = [procs EXCEPT ![p].pc = "v_clear"]
    /\ resp' = NoResp
    /\ UNCHANGED <<clock, cache, nextId, users, last, sent, tripped>>

\* cache.set(verify_attempts_key, verify_attempts + 1, 3600)
AttemptsCacheAfterMutSame(ph, c, attempts) ==
    CacheSet(AttemptsKey(ph, c), attempts, ATTEMPTS_WINDOW)

AttemptsCacheAfter(ph, c, attempts) ==
    CacheSet(AttemptsKey(ph, c), attempts + 1, ATTEMPTS_WINDOW)

\* except OTP.DoesNotExist: count the failure and 400
VerifyFail(p) ==
    /\ procs[p].pc = "v_fail"
    /\ cache' = AttemptsCacheAfter(procs[p].phone, procs[p].code, procs[p].counter)
    /\ procs' = Finish(p)
    /\ resp' = Response("verify", procs[p], procs[p].code, NoRole,
                        "InvalidOrExpiredCode", 0, 0)
    /\ UNCHANGED <<clock, otps, nextId, users, last, sent, tripped>>

\* cache.delete(verify_attempts_key)
VerifyClear(p) ==
    /\ procs[p].pc = "v_clear"
    /\ cache' = CacheDelete({AttemptsKey(procs[p].phone, procs[p].code)})
    /\ procs' = [procs EXCEPT ![p].pc = "v_unlock"]
    /\ resp' = NoResp
    /\ UNCHANGED <<clock, otps, nextId, users, last, sent, tripped>>

\* cache.delete(verify_lock_key)
VerifyUnlock(p) ==
    /\ procs[p].pc = "v_unlock"
    /\ cache' = CacheDelete({LockKey(procs[p].phone, procs[p].code)})
    /\ procs' = [procs EXCEPT ![p].pc = "v_user"]
    /\ resp' = NoResp
    /\ tripped' = tripped \ {<<procs[p].phone, procs[p].code>>}
    /\ UNCHANGED <<clock, otps, nextId, users, last, sent>>

\* user lookup, active check, role gate with request.data.get("role"); then
\* OTP.delete_old() and the token
VerifyFinish(p, role) ==
    /\ procs[p].pc = "v_user"
    /\ LET ph == procs[p].phone
           c == procs[p].code
           user == GetUser(ph)
           r == procs[p].rec
       IN IF DoesNotExist(user)
          THEN /\ resp' = Response("verify", procs[p], c, role, "UserNotFound", r, 0)
               /\ UNCHANGED otps
          ELSE IF Inactive(user)
          THEN /\ resp' = Response("verify", procs[p], c, role, "AccountDisabled", r, 0)
               /\ UNCHANGED otps
          ELSE IF role # NoRole /\ ~HasRole(user, role)
          THEN /\ resp' = Response("verify", procs[p], c, role, "AccessDenied", r, 0)
               /\ UNCHANGED otps
          ELSE /\ DeleteOldEnabled(p)
               /\ otps' = DeleteOld(otps)
               /\ resp' = Response("verify", procs[p], c, role, "Verified", r, user.id)
    /\ procs' = Finish(p)
    /\ last' = [kind |-> "verify", phone |-> procs[p].phone, code |-> procs[p].code,
                at |-> clock]
    /\ UNCHANGED <<clock, cache, nextId, users, sent, tripped>>

\* ------------------------------------------------------------- LoginView.post
\* password login by phone, in one step: the handler reads the user table only.
\* password_ok is the value of user.check_password(password) for the submitted
\* password.
Login(p, ph, password_ok, role) ==
    /\ Free(p)
    /\ LET user == GetUser(ph)
           req == [Idle EXCEPT !.phone = ph]
           result == IF DoesNotExist(user) THEN "InvalidCredentials"
                     ELSE IF ~password_ok THEN "InvalidCredentials"
                     ELSE IF Inactive(user) THEN "AccountDisabled"
                     ELSE IF role # NoRole /\ ~HasRole(user, role) THEN "AccessDenied"
                     ELSE "LoggedIn"
       IN resp' = Response("login", req, 0, role, result, 0,
                           IF result = "LoggedIn" THEN user.id ELSE 0)
    /\ last' = NoLast
    /\ UNCHANGED <<clock, cache, otps, nextId, users, procs, sent, tripped>>

\* ------------------------------------------------------------- environment
\* time passes; cache entries whose timeout has run out are gone.  With atRest
\* the clock moves between requests only: every request is served within one
\* clock reading.
Tick(maxTime, atRest) ==
    /\ clock < maxTime
    /\ atRest => \A p \in Workers : Free(p)
    /\ clock' = clock + 1
    /\ cache' = [k \in CacheKeys |->
                    IF cache[k].exp > clock + 1 THEN cache[k] ELSE NoEntry]
    /\ sent' = [ph \in Phones |->
                    IF cache[RateKey(ph)].exp > clock + 1 THEN sent[ph] ELSE 0]
    /\ resp' = NoResp
    /\ UNCHANGED <<otps, nextId, users, procs, last, tripped>>

\* the Counter Store loses an entry (eviction, restart) at any moment
Evict(k) ==
    /\ cache[k] # NoEntry
    /\ cache' = [cache EXCEPT ![k] = NoEntry]
    /\ sent' = [ph \in Phones |-> IF k = RateKey(ph) THEN 0 ELSE sent[ph]]
    /\ resp' = NoResp
    /\ UNCHANGED <<clock, otps, nextId, users, procs, last, tripped>>

\* an owner or admin switches a user's active flag
SetActive(ph) ==
    /\ users[ph] # NoUser
    /\ users' = [users EXCEPT ![ph].is_active = ~users[ph].is_active]
    /\ resp' = NoResp
    /\ UNCHANGED <<clock, cache, otps, nextId, procs, last, sent, tripped>>

\* the steps of a request once it has arrived
SendStep(p, codes) ==
    \/ SendLimit(p)
    \/ SendCheckUser(p)
    \/ SendInvalidate(p)
    \/ SendCreate(p, codes)

VerifyStep(p, roles) ==
    \/ VerifyGet(p)
    \/ VerifySetLock(p)
    \/ VerifySelect(p)
    \/ VerifyMarkUsed(p)
    \/ VerifyFail(p)
    \/ VerifyClear(p)
    \/ VerifyUnlock(p)
    \/ \E role \in roles : VerifyFinish(p, role)

\* Spec: concurrent workers, sends and verifies for one phone
Next ==
    \/ \E p \in Workers :
        \/ StartSend(p, 1, MaxOtps)
        \/ SendStep(p, Codes)
        \/ StartVerify(p, 1, 1)
        \/ VerifyStep(p, {NoRole})
    \/ Tick(MaxTime, FALSE)

Spec == Init /\ [][Next]_vars

\* SpecSeq: requests served one at a time for phone 1, every send drawing code 1
\* and verifies submitting either code, with a requested role and changes of the
\* active flag
NextSeq ==
    \/ StartSend(1, 1, MaxOtpsSeq)
    \/ SendStep(1, {1})
    \/ \E c \in Codes : StartVerify(1, 1, c)
    \/ VerifyStep(1, RequestedRoles)
    \/ Tick(MaxTimeSeq, TRUE)
    \/ SetActive(1)

SpecSeq == Init /\ [][NextSeq]_vars

\* SpecSend: sends only, one at a time, for both phones
NextSend ==
    \/ \E ph \in Phones : StartSend(1, ph, MaxOtpsSend)
    \/ SendStep(1, Codes)
    \/ Tick(MaxTimeSend, TRUE)

SpecSend == Init /\ [][NextSend]_vars

\* SpecAuth: sends and verifies of phone 1 and code 1, password logins and
\* switches of the active flag, one request at a time, with every requested role
\* and a user of phone 1 that holds one role, is the super admin, or is missing
AuthRoles == {NoRole, "MANAGER", "SALES_EXECUTIVE", "SUPERADMIN"}

AuthUserTables ==
    {[ph \in Phones |-> IF ph = 1 THEN u ELSE Manager(ph)] :
        u \in {Manager(1), SuperAdmin(1), NoUser}}

InitAuth ==
    /\ clock = 0
    /\ cache = [k \in CacheKeys |-> NoEntry]
    /\ otps = [i \in Ids |-> NoOtp]
    /\ nextId = 1
    /\ users \in AuthUserTables
    /\ procs = [p \in Workers |-> Idle]
    /\ resp = NoResp
    /\ last = NoLast
    /\ sent = [ph \in Phones |-> 0]
    /\ tripped = {}

NextAuth ==
    \/ StartSend(1, 1, MaxOtpsAuth)
    \/ SendStep(1, {1})
    \/ StartVerify(1, 1, 1)
    \/ VerifyStep(1, AuthRoles)
    \/ \E password_ok \in BOOLEAN, role \in AuthRoles : Login(1, 1, password_ok, role)
    \/ Tick(MaxTimeAuth, TRUE)
    \/ SetActive(1)

SpecAuth == InitAuth /\ [][NextAuth]_vars

\* SpecEvict: concurrent verifies of phone 1 and code 1, and sends for phone 1
\* served by worker 1, over a Counter Store that may lose any entry between any
\* two steps
NextEvict ==
    \/ StartSend(1, 1, MaxOtpsEvict)
    \/ SendStep(1, Codes)
    \/ \E p \in Workers :
        \/ StartVerify(p, 1, 1)
        \/ VerifyStep(p, {NoRole})
    \/ Tick(MaxTimeEvict, FALSE)
    \/ \E k \in CacheKeys : Evict(k)

SpecEvict == Init /\ [][NextEvict]_vars

\* SpecRace: concurrent sends for phone 1 within one rate-limit window
NextRace ==
    \/ \E p \in Workers :
        \/ StartSend(p, 1, MaxOtpsRace)
        \/ SendStep(p, {1})
    \/ Tick(MaxTimeRace, FALSE)

SpecRace == Init /\ [][NextRace]_vars

\* SpecLive: concurrent verifies of phone 1 and code 1, sends and logins served
\* by worker 1, under a scheduler that lets every request take its next step
\* when it stays able to: a runnable worker is run, and a statement waiting for
\* a row lock is resumed once the lock is free.  Arrivals and the clock are not
\* forced.
NextLive ==
    \/ StartSend(1, 1, MaxOtpsLive)
    \/ SendStep(1, {1})
    \/ \E password_ok \in BOOLEAN : Login(1, 1, password_ok, NoRole)
    \/ \E p \in Workers :
        \/ StartVerify(p, 1, 1)
        \/ VerifyStep(p, {NoRole})
    \/ Tick(MaxTimeLive, FALSE)

FairLive == \A p \in Workers : WF_vars(SendStep(p, {1}) \/ VerifyStep(p, {NoRole}))

SpecLive == Init /\ [][NextLive]_vars /\ FairLive

\* a worker that has passed the consume step holds the row in rec
PastSelect == {"v_mark", "v_clear", "v_unlock", "v_user"}

PastConsume == {"v_clear", "v_unlock", "v_user"}

\* C1: concurrent verifies of one (phone, code) never consume the same row twice:
\* mark_used() runs at most once per row, and no two requests in flight have
\* passed the consume step with the same row.
ExactlyOnceConsumption ==
    /\ \A i \in Ids : otps[i].uses <= 1
    /\ \A p, q \in Workers :
        p # q /\ procs[p].pc \in PastSelect /\ procs[q].pc \in PastSelect
            => procs[p].rec # procs[q].rec

\* one request has consumed the row; a concurrent one for the same (phone, code),
\* for which the row would still be in time, is on the failure path
RaceLostWitness ==
    \E p, q \in Workers :
        /\ procs[p].pc \in PastConsume
        /\ procs[q].pc = "v_fail"
        /\ procs[q].phone = procs[p].phone /\ procs[q].code = procs[p].code
        /\ otps[procs[p].rec].live /\ otps[procs[p].rec].uses = 1
        /\ otps[procs[p].rec].expires_at >= clock

ValidIds(ph) == {i \in Ids : ActiveFor(otps[i], ph, clock)}

\* C2: every phone has at most one OTP row that is unused and not expired.
AtMostOneValidPerPhone ==
    \A ph \in Phones : Cardinality(ValidIds(ph)) <= 1

\* C3: a verify that arrives after a send created a newer row with another code
\* never consumes the older row and gets no response backed by it.
OldCodeNeverConsumed ==
    /\ \A p \in Workers :
        procs[p].pc \in PastSelect => procs[p].rec > procs[p].newer
    /\ resp.kind = "verify" /\ resp.rec # 0 => resp.rec > resp.newer

\* the step in which worker p's request arrives
Arrives(p) == procs[p].pc = "idle" /\ (procs'[p].pc # "idle" \/ resp' # NoResp)

\* C4: a used row stays used until it is deleted and is never selected again,
\* and a verify that follows at once the verify that consumed its (phone, code),
\* whatever that one returned, fails with InvalidOrExpiredCode.
ConsumptionPermanent ==
    [][/\ \A i \in Ids : otps[i].used => otps'[i] = otps[i] \/ otps'[i] = NoOtp
       /\ \A p \in Workers :
            procs[p].pc # "v_mark" /\ procs'[p].pc = "v_mark"
                => ~otps[procs'[p].rec].used /\ otps[procs'[p].rec].uses = 0
       /\ resp'.kind = "verify" /\ "used" \in resp'.prev
            => resp'.result = "InvalidOrExpiredCode" /\ resp'.rec = 0]_vars

\* the second verify has failed while the row the first one consumed is still
\* in the table: the first one was rejected after its consume
SecondVerifyWitness ==
    /\ resp.kind = "verify" /\ "used" \in resp.prev
    /\ resp.result = "InvalidOrExpiredCode"
    /\ \E i \in Ids : /\ otps[i].live /\ otps[i].used
                      /\ otps[i].phone = resp.phone /\ otps[i].code = resp.code

\* C5: the verify that follows at once the send that created its code, for a
\* phone whose user is active and with no requested role, returns a token with
\* that user's id.
RoundTripSucceeds ==
    /\ resp.kind = "verify" /\ "sent" \in resp.prev /\ resp.role = NoRole
    /\ users[resp.phone] # NoUser /\ users[resp.phone].is_active
    => resp.result = "Verified" /\ resp.uid = users[resp.phone].id

\* C6: the rate limiter sees the number of sends accepted in the running window;
\* a send is answered RateLimited exactly when that number has reached the
\* maximum, so never more than the maximum are accepted in one window, and an
\* accepted send is counted; the window is over when the counter has run out.
SendLimitCounts ==
    [][\A p \in Workers :
        /\ Arrives(p) /\ procs'[p].pc = "s_set"
            => procs'[p].counter = sent[procs'[p].phone]
        /\ procs[p].pc = "s_set" /\ procs'[p].pc # "s_set"
            => /\ resp'.result = "RateLimited" <=> procs[p].counter >= MAX_OTP_PER_HOUR
               /\ resp'.result # "RateLimited"
                    => /\ procs'[p].pc = "s_user"
                       /\ sent'[procs[p].phone] = procs[p].counter + 1
                       /\ CacheGet(RateKey(procs[p].phone), 0)' = procs[p].counter + 1]_vars

\* the send after the maximum has been answered RateLimited
RateLimitedWitness ==
    /\ resp.kind = "send" /\ resp.result = "RateLimited"
    /\ sent[resp.phone] = MAX_OTP_PER_HOUR

\* C7: a send answered RateLimited changes no cache entry and no OTP row.
RateLimitedNoSideEffects ==
    [][resp'.kind = "send" /\ resp'.result = "RateLimited"
        => /\ cache' = cache /\ otps' = otps /\ nextId' = nextId
           /\ users' = users /\ sent' = sent /\ tripped' = tripped]_vars

\* a RateLimited answer with other cache entries and an OTP row in place
RateLimitedFrameWitness ==
    /\ resp.kind = "send" /\ resp.result = "RateLimited"
    /\ \E c \in Codes : cache[AttemptsKey(resp.phone, c)] # NoEntry
    /\ \E i \in Ids : otps[i].live /\ ~otps[i].used

\* C8: while the send counter of a phone is there, no send changes its expiry.
CounterExpiryFixed ==
    [][\A ph \in Phones :
        CacheGet(RateKey(ph), 0) # 0 /\ clock' = clock
            => cache'[RateKey(ph)].exp = cache[RateKey(ph)].exp]_vars

\* C9: a verify that arrives while the lockout flag of its (phone, code) is set
\* is answered TooManyAttempts and changes no cache entry, no OTP row and no
\* counter.
LockoutIdempotent ==
    [][\A p \in Workers, ph \in Phones, c \in Codes :
        /\ cache[LockKey(ph, c)] # NoEntry /\ cache[LockKey(ph, c)].exp > clock
        /\ StartVerify(p, ph, c)
        => /\ resp'.kind = "verify" /\ resp'.result = "TooManyAttempts"
           /\ cache' = cache /\ otps' = otps /\ tripped' = tripped
           /\ procs' = procs]_vars

\* a verify was turned away by a flag set at an earlier instant while a row
\* matching its (phone, code) is valid and stays unused
LockedOutWitness ==
    /\ resp.kind = "verify" /\ resp.result = "TooManyAttempts"
    /\ cache[LockKey(resp.phone, resp.code)].exp > clock
    /\ cache[LockKey(resp.phone, resp.code)].exp < clock + LOCK_DURATION
    /\ MatchingIds(resp.phone, resp.code, clock) # {}

\* C10: a verify that arrives after the lockout of its (phone, code) has run out
\* consumes the row matching its code if one is valid.
AfterLockoutSucceeds ==
    resp.kind = "verify" /\ "unlocked" \in resp.prev /\ resp.rec = 0
        => MatchingIds(resp.phone, resp.code, clock) = {}

\* no row of the table is an unused, unexpired record of (ph, c) at now
NoValidRecord(ph, c, now) ==
    \A i \in Ids : ~(/\ otps[i].live /\ otps[i].phone = ph /\ otps[i].code = c
                     /\ ~otps[i].used /\ otps[i].expires_at >= now)

\* C11: a verify past the lockout check goes to the lock branch exactly when the
\* failure counter of its (phone, code) is at or above the maximum; there it sets
\* the lockout flag with the lock duration, answers TooManyAttempts, consumes no
\* row and leaves the failure counter and every other entry as they are.
FailureCountLocks ==
    [][\A p \in Workers :
        LET ph == procs[p].phone
            c == procs[p].code
        IN /\ procs[p].pc = "v_get" /\ procs'[p].pc # "v_get"
                => /\ procs'[p].pc = "v_setlock"
                        <=> CacheGet(AttemptsKey(ph, c), 0) >= MAX_VERIFY_ATTEMPTS
                   /\ cache' = cache /\ otps' = otps
           /\ procs[p].pc = "v_setlock" /\ procs'[p].pc # "v_setlock"
                => /\ resp'.kind = "verify" /\ resp'.result = "TooManyAttempts"
                   /\ resp'.rec = 0 /\ otps' = otps
                   /\ cache' = [cache EXCEPT ![LockKey(ph, c)] =
                                    [val |-> 1, exp |-> clock + LOCK_DURATION]]]_vars

\* the lock has just been set by a verify whose code is valid
LockSetWitness ==
    /\ resp.kind = "verify" /\ resp.result = "TooManyAttempts"
    /\ cache[LockKey(resp.phone, resp.code)].exp = clock + LOCK_DURATION
    /\ cache[AttemptsKey(resp.phone, resp.code)].val >= MAX_VERIFY_ATTEMPTS
    /\ ~NoValidRecord(resp.phone, resp.code, clock)

\* C12: a verify past both checks that finds no valid record of its (phone, code)
\* takes the failure branch; there it answers InvalidOrExpiredCode, sets the
\* failure counter one above its present value (absent: 0) with the one-hour
\* expiry and changes no row, so that failures in sequence count 1, 2, .. max.
FailureCounted ==
    [][\A p \in Workers :
        LET ph == procs[p].phone
            c == procs[p].code
        IN /\ (/\ procs[p].pc = "v_select" /\ procs'[p].pc # "v_select"
               /\ NoValidRecord(ph, c, procs[p].now))
                => procs'[p].pc = "v_fail" /\ otps' = otps /\ cache' = cache
           /\ procs[p].pc = "v_fail" /\ procs'[p].pc # "v_fail"
                => /\ resp'.kind = "verify" /\ resp'.result = "InvalidOrExpiredCode"
                   /\ otps' = otps
                   /\ cache' = [cache EXCEPT ![AttemptsKey(ph, c)] =
                                    [val |-> CacheGet(AttemptsKey(ph, c), 0) + 1,
                                     exp |-> clock + ATTEMPTS_WINDOW]]
                   /\ cache'[AttemptsKey(ph, c)].val <= MAX_VERIFY_ATTEMPTS]_vars

\* the failure that brings the counter to the maximum
MaxFailuresWitness ==
    /\ resp.kind = "verify" /\ resp.result = "InvalidOrExpiredCode"
    /\ cache[AttemptsKey(resp.phone, resp.code)] =
            [val |-> MAX_VERIFY_ATTEMPTS, exp |-> clock + ATTEMPTS_WINDOW]

\* why a verify finds no valid record of (ph, c)
Cause(ph, c) ==
    IF \E i \in Ids : /\ otps[i].live /\ otps[i].phone = ph /\ otps[i].code = c
                      /\ otps[i].used
    THEN "used"
    ELSE IF \E i \in Ids : otps[i].live /\ otps[i].phone = ph /\ otps[i].code = c
    THEN "expired"
    ELSE "never issued"

\* C13: whatever the cause, a verify that finds no valid record does the same:
\* its steps, its answer and the cache after it are determined by the request and
\* the counter it read, not by the rows of the table.
CauseNotRevealed ==
    [][\A p \in Workers, cause \in {"used", "expired", "never issued"} :
        /\ (/\ procs[p].pc = "v_select" /\ procs'[p] # procs[p]
            /\ NoValidRecord(procs[p].phone, procs[p].code, procs[p].now)
            /\ Cause(procs[p].phone, procs[p].code) = cause)
            => /\ procs'[p] = [procs[p] EXCEPT !.pc = "v_fail", !.now = 0]
               /\ resp' = NoResp /\ cache' = cache /\ otps' = otps
        /\ (/\ procs[p].pc = "v_fail" /\ procs'[p] # procs[p]
            /\ Cause(procs[p].phone, procs[p].code) = cause)
            => /\ resp' = Response("verify", procs[p], procs[p].code, NoRole,
                                   "InvalidOrExpiredCode", 0, 0)
               /\ procs'[p] = Idle /\ otps' = otps
               /\ cache' = [cache EXCEPT
                                ![AttemptsKey(procs[p].phone, procs[p].code)] =
                                    [val |-> procs[p].counter + 1,
                                     exp |-> clock + ATTEMPTS_WINDOW]]]_vars

\* two verifies of one phone have failed for different causes and have left
\* the same counter entry
TwoCausesWitness ==
    /\ resp.kind = "verify" /\ resp.result = "InvalidOrExpiredCode"
    /\ \E c \in Codes :
        /\ Cause(resp.phone, c) # Cause(resp.phone, resp.code)
        /\ cache[AttemptsKey(resp.phone, c)] # NoEntry
        /\ cache[AttemptsKey(resp.phone, c)] = cache[AttemptsKey(resp.phone, resp.code)]
        /\ NoValidRecord(resp.phone, c, clock)

\* C14 as amended: a verify that has consumed a row deletes the failure counter
\* and then the lockout flag of its (phone, code) before the user lookup, whatever
\* it answers afterwards; an entry of that (phone, code) comes back only by the
\* failure branch or the lock branch of another verify.
ConsumeClears ==
    [][/\ \A p \in Workers :
            LET ph == procs[p].phone
                c == procs[p].code
            IN /\ procs[p].pc = "v_mark" /\ procs'[p].pc # "v_mark"
                    => procs'[p].pc = "v_clear"
               /\ procs[p].pc = "v_clear" /\ procs'[p].pc # "v_clear"
                    => procs'[p].pc = "v_unlock" /\ cache'[AttemptsKey(ph, c)] = NoEntry
               /\ procs[p].pc = "v_unlock" /\ procs'[p].pc # "v_unlock"
                    => procs'[p].pc = "v_user" /\ cache'[LockKey(ph, c)] = NoEntry
       /\ resp'.kind = "verify" /\ resp'.rec # 0
            => \E p \in Workers : procs[p].pc = "v_user" /\ procs'[p] = Idle
       /\ \A ph \in Phones, c \in Codes :
            /\ cache[AttemptsKey(ph, c)] = NoEntry /\ cache'[AttemptsKey(ph, c)] # NoEntry
                => \E q \in Workers : /\ procs[q].pc = "v_fail" /\ procs'[q] = Idle
                                      /\ procs[q].phone = ph /\ procs[q].code = c
            /\ cache[LockKey(ph, c)] = NoEntry /\ cache'[LockKey(ph, c)] # NoEntry
                => \E q \in Workers : /\ procs[q].pc = "v_setlock" /\ procs'[q] = Idle
                                      /\ procs[q].phone = ph /\ procs[q].code = c]_vars

\* a consuming verify that was rejected at the user lookup has returned and both
\* entries are absent, while a concurrent verify still holds the failure count
\* it read before the delete
ClearedWitness ==
    /\ resp.kind = "verify" /\ resp.rec # 0 /\ resp.result = "UserNotFound"
    /\ cache[AttemptsKey(resp.phone, resp.code)] = NoEntry
    /\ cache[LockKey(resp.phone, resp.code)] = NoEntry
    /\ \E q \in Workers : /\ procs[q].pc = "v_fail" /\ procs[q].counter >= 1
                          /\ procs[q].phone = resp.phone /\ procs[q].code = resp.code

\* C14 as stated: when a verify that consumed a row has returned, with a token or
\* rejected after the consume, the failure counter and the lockout flag of its
\* (phone, code) are absent, in any interleaving.
ConsumeClearsCounters ==
    resp.kind = "verify" /\ resp.rec # 0
        => /\ cache[AttemptsKey(resp.phone, resp.code)] = NoEntry
           /\ cache[LockKey(resp.phone, resp.code)] = NoEntry

\* the verify that answers in this step has consumed a row and found an active user
VerifyAtGate(p) ==
    /\ procs[p].pc = "v_user" /\ procs'[p] = Idle
    /\ ~DoesNotExist(users[procs[p].phone]) /\ users[procs[p].phone].is_active

\* C15: at the role gate of verify and of login, for a user without the
\* super-admin flag: no requested role passes; a requested role passes exactly
\* when it is the name of one of the user's role assignments; every other request
\* is answered AccessDenied without a token, after the consume or the password
\* check has succeeded.
RoleGateExact ==
    [][\A p \in Workers :
        /\ VerifyAtGate(p) /\ ~users[procs[p].phone].is_super_admin
            => /\ resp'.kind = "verify"
               /\ resp'.result \in {"Verified", "AccessDenied"}
               /\ resp'.result = "Verified"
                    <=> resp'.role = NoRole \/ resp'.role \in users[procs[p].phone].roles
               /\ resp'.result = "Verified" => resp'.uid = users[procs[p].phone].id
               /\ resp'.result = "AccessDenied"
                    => resp'.uid = 0 /\ otps'[procs[p].rec].used
        /\ \A ph \in Phones, role \in AuthRoles :
            (/\ Login(p, ph, TRUE, role)
             /\ ~DoesNotExist(users[ph]) /\ users[ph].is_active
             /\ ~users[ph].is_super_admin)
            => /\ resp'.kind = "login"
               /\ resp'.result = "LoggedIn"
                    <=> role = NoRole \/ role \in users[ph].roles
               /\ resp'.result = "LoggedIn" => resp'.uid = users[ph].id
               /\ resp'.result # "LoggedIn"
                    => resp'.result = "AccessDenied" /\ resp'.uid = 0]_vars

\* a verify was denied at the role gate after it had consumed its row
DeniedAfterConsumeWitness ==
    /\ resp.kind = "verify" /\ resp.result = "AccessDenied" /\ resp.uid = 0
    /\ resp.rec # 0 /\ otps[resp.rec].used
    /\ ~users[resp.phone].is_super_admin /\ resp.role \notin users[resp.phone].roles

\* C16: a user with the super-admin flag is never denied at the role gate,
\* whatever role is requested, in verify and in login.
SuperAdminPassesGate ==
    /\ resp.kind \in {"verify", "login"}
    /\ users[resp.phone].is_super_admin
    => resp.result # "AccessDenied"

\* the phone has a user and the user is switched off
Deactivated(ph) == users[ph] # NoUser /\ ~users[ph].is_active

\* C17 as amended: for a phone whose user is inactive, a send that has passed the
\* rate limiter, a verify that has consumed a row and a login with the right
\* password are answered AccountDisabled; no request for the phone is answered
\* with a token.
InactiveRefused ==
    [][/\ \A p \in Workers :
            /\ (/\ procs[p].pc = "s_user" /\ procs'[p].pc # "s_user"
                /\ Deactivated(procs[p].phone))
                => /\ resp'.kind = "send" /\ resp'.result = "AccountDisabled"
                   /\ procs'[p] = Idle /\ otps' = otps
            /\ (/\ procs[p].pc = "v_user" /\ procs'[p] = Idle
                /\ Deactivated(procs[p].phone))
                => /\ resp'.kind = "verify" /\ resp'.result = "AccountDisabled"
                   /\ resp'.uid = 0
            /\ \A ph \in Phones, role \in AuthRoles :
                Login(p, ph, TRUE, role) /\ Deactivated(ph)
                    => /\ resp'.kind = "login" /\ resp'.result = "AccountDisabled"
                       /\ resp'.uid = 0
       /\ resp'.kind # "" /\ Deactivated(resp'.phone)
            => resp'.result \notin {"Verified", "LoggedIn"} /\ resp'.uid = 0]_vars

\* a verify for an inactive user has been refused after its consume
InactiveVerifyWitness ==
    /\ resp.kind = "verify" /\ resp.result = "AccountDisabled"
    /\ Deactivated(resp.phone) /\ resp.rec # 0

\* C17 as stated: every request for a phone whose user is inactive is answered
\* AccountDisabled.
InactiveAlwaysAccountDisabled ==
    resp.kind # "" /\ Deactivated(resp.phone) => resp.result = "AccountDisabled"

\* C18: no step creates a row for a phone, or marks a row of a phone used, while
\* the user of that phone is inactive.
NoOtpWhileInactive ==
    [][\A i \in Ids :
        \/ ~otps[i].live /\ otps'[i].live
        \/ otps[i].live /\ ~otps[i].used /\ otps'[i].live /\ otps'[i].used
        => ~Deactivated(otps'[i].phone)]_vars

\* C19: a token is answered only for a user that exists and is active.
NoTokenWhenInactive ==
    resp.result \in {"Verified", "LoggedIn"}
        => /\ users[resp.phone] # NoUser /\ users[resp.phone].is_active
           /\ resp.uid = users[resp.phone].id

\* a login for an inactive user has been refused while a code sent before the
\* deactivation is still valid
InactiveLoginWitness ==
    /\ resp.kind = "login" /\ resp.result = "AccountDisabled" /\ resp.uid = 0
    /\ Deactivated(resp.phone)
    /\ \E i \in Ids : ActiveFor(otps[i], resp.phone, clock)

\* C20: a verify that has consumed its row and finds no user of the phone answers
\* UserNotFound without a token; no step of a send, a verify or a login changes
\* the user table.
VerifyCreatesNoUser ==
    [][/\ \A p \in Workers :
            (/\ procs[p].pc = "v_user" /\ procs'[p] = Idle
             /\ users[procs[p].phone] = NoUser)
            => /\ resp'.kind = "verify" /\ resp'.result = "UserNotFound"
               /\ resp'.uid = 0 /\ resp'.rec = procs[p].rec
       /\ procs' # procs \/ resp' # NoResp => users' = users]_vars

\* a verify has consumed a row of a phone that has no user
UserNotFoundWitness ==
    /\ resp.kind = "verify" /\ resp.result = "UserNotFound" /\ resp.uid = 0
    /\ resp.rec # 0 /\ users[resp.phone] = NoUser

\* ------------------------------------------------------------- C21 .. C30
\* C21: a login for a credential that matches no user and a login with a wrong
\* password for a user that exists, active or not, are answered with the same
\* response, InvalidCredentials without a token, and change nothing.
LoginHidesExistence ==
    [][\A p \in Workers, ph \in Phones, password_ok \in BOOLEAN, role \in AuthRoles :
        (/\ Login(p, ph, password_ok, role)
         /\ users[ph] = NoUser \/ ~password_ok)
        => /\ resp' = Response("login", [Idle EXCEPT !.phone = ph], 0, role,
                               "InvalidCredentials", 0, 0)
           /\ UNCHANGED <<clock, cache, otps, nextId, users, procs, sent, tripped>>]_vars

\* a login with a wrong password for a deactivated user has been answered
\* InvalidCredentials, as a login for a phone without user is
WrongPasswordInactiveWitness ==
    /\ resp.kind = "login" /\ resp.result = "InvalidCredentials" /\ resp.uid = 0
    /\ Deactivated(resp.phone)

\* a row that a verify at clock reading t can still select
ValidAt(o, t) == o.live /\ ~o.used /\ o.expires_at >= t

\* C22: the life of a row is monotonic.  While a row exists its phone and code
\* stay, its expiry never moves later, it is marked used at most once and a used
\* row changes no more; a row that is used, expired, invalidated or deleted is
\* never valid again.
OtpLifeMonotonic ==
    [][\A i \in Ids :
        /\ (otps[i].live /\ otps'[i].live)
            => /\ otps'[i].phone = otps[i].phone /\ otps'[i].code = otps[i].code
               /\ otps'[i].expires_at <= otps[i].expires_at
               /\ otps[i].used => otps'[i] = otps[i]
               /\ otps'[i].uses >= otps[i].uses /\ otps'[i].uses <= 1
               /\ otps'[i].used <=> otps'[i].uses = 1
        /\ (i < nextId /\ ~ValidAt(otps[i], clock)) => ~ValidAt(otps'[i], clock')]_vars

\* one row has been invalidated by a later send (its expiry is earlier than any
\* expiry a creation gives) while another row has been marked used
InvalidatedAndUsedWitness ==
    \E i, j \in Ids :
        /\ otps[i].live /\ ~otps[i].used /\ otps[i].expires_at < OTP_EXPIRY_MINUTES
        /\ otps[j].live /\ otps[j].used /\ otps[j].uses = 1

\* the row in worker p's hands matched the submitted phone and code, was unused
\* and had not expired when it was selected
SelectedRowMatched(p) ==
    LET o == otps[procs[p].rec]
    IN  /\ o.live /\ o.phone = procs[p].phone /\ o.code = procs[p].code
        /\ ~o.used /\ o.uses = 0 /\ o.expires_at >= procs[p].now

\* with entries of the Counter Store lost at any moment, no row is marked used
\* twice and only a row of the submitted phone and code that was unused and
\* unexpired is consumed
EvictionKeepsConsumption ==
    /\ ExactlyOnceConsumption
    /\ \A p \in Workers : procs[p].pc = "v_mark" => SelectedRowMatched(p)
    /\ resp.result = "Verified" => resp.kind = "verify" /\ resp.rec # 0

\* C23: with entries of the Counter Store lost at any moment, every row is still
\* consumed at most once and a code that is wrong, expired, already used or
\* invalidated by a newer code is never consumed and never yields a token.
EvictionKeepsVerification ==
    /\ EvictionKeepsConsumption
    /\ \A p \in Workers : procs[p].pc \in PastSelect => procs[p].rec > procs[p].newer
    /\ resp.result = "Verified" => resp.rec > resp.newer

\* the value of the failure counter of (ph, c) that a read of the given store at
\* the given clock reading returns
FailureCount(store, t, ph, c) ==
    IF store[AttemptsKey(ph, c)].exp > t THEN store[AttemptsKey(ph, c)].val ELSE 0

\* C24: the failure counter of (phone, code) is at most the number of verifies of
\* that pair that found no matching row since the counter was last cleared or ran
\* out: no step raises it, except the step of a verify that found no matching
\* row, which raises it by at most one.
FailureCounterNeverOvercounts ==
    [][\A ph \in Phones, c \in Codes :
        LET failed == /\ resp'.kind = "verify" /\ resp'.phone = ph /\ resp'.code = c
                      /\ resp'.result = "InvalidOrExpiredCode"
        IN  FailureCount(cache', clock', ph, c)
                <= FailureCount(cache, clock, ph, c) + (IF failed THEN 1 ELSE 0)]_vars

\* worker q's select waits for a row of its (phone, code) that another verify
\* holds locked
WaitsForRow(q) ==
    /\ procs[q].pc = "v_select"
    /\ \E p \in Workers \ {q} : \E i \in Ids :
        /\ HoldsLock(p, i)
        /\ otps[i].live /\ otps[i].phone = procs[q].phone
        /\ otps[i].code = procs[q].code /\ ~otps[i].used
        /\ otps[i].expires_at >= procs[q].now

\* worker q's select comes after a concurrent verify of the same (phone, code)
\* has marked the one row used that q could have selected
LostRace(q) ==
    /\ procs[q].pc = "v_select"
    /\ NoValidRecord(procs[q].phone, procs[q].code, procs[q].now)
    /\ \E p \in Workers \ {q} :
        /\ procs[p].pc \in PastConsume
        /\ procs[p].phone = procs[q].phone /\ procs[p].code = procs[q].code
        /\ otps[procs[p].rec].used /\ otps[procs[p].rec].expires_at >= procs[q].now

\* C25: a verify that races for a row another verify holds waits for the lock;
\* once the winner has marked the row used the loser finds no matching row and
\* takes the failure path, which answers InvalidOrExpiredCode without a token
\* and writes the failure counter of its (phone, code): the count it read, plus
\* one, for a new window.
RaceLoserTakesFailurePath ==
    [][\A q \in Workers :
        /\ WaitsForRow(q) => procs'[q] = procs[q]
        /\ (LostRace(q) /\ procs'[q] # procs[q])
            => procs'[q] = [procs[q] EXCEPT !.pc = "v_fail", !.now = 0]
        /\ (procs[q].pc = "v_fail" /\ procs'[q] # procs[q])
            => /\ resp' = Response("verify", procs[q], procs[q].code, NoRole,
                                   "InvalidOrExpiredCode", 0, 0)
               /\ procs'[q] = Idle
               /\ cache'[AttemptsKey(procs[q].phone, procs[q].code)]
                    = [val |-> procs[q].counter + 1, exp |-> clock + ATTEMPTS_WINDOW]
               /\ otps' = otps]_vars

\* the loser of a race has been answered InvalidOrExpiredCode and is counted,
\* while the winner, past its consume, has not yet cleared the counter
RaceLoserCountedWitness ==
    /\ resp.kind = "verify" /\ resp.result = "InvalidOrExpiredCode"
    /\ CacheGet(AttemptsKey(resp.phone, resp.code), 0) >= 1
    /\ \E p \in Workers :
        /\ procs[p].pc = "v_clear"
        /\ procs[p].phone = resp.phone /\ procs[p].code = resp.code
        /\ otps[procs[p].rec].uses = 1 /\ otps[procs[p].rec].expires_at >= clock

\* the rows ever created (row ids are handed out in order; SpecRace creates rows
\* for phone 1 only)
RowsCreated == nextId - 1

\* C26: in every interleaving of concurrent sends for one phone, the sends
\* accepted past the rate limiter within one window, and so the rows created for
\* the phone, are at most the configured maximum.  (SpecRace ends before the first
\* window does: MaxTimeRace < RATE_LIMIT_WINDOW.)
ConcurrentSendsWithinLimit ==
    /\ sent[1] <= MAX_OTP_PER_HOUR
    /\ RowsCreated <= MAX_OTP_PER_HOUR

VerifyPcs == {"v_get", "v_setlock", "v_select", "v_mark", "v_fail", "v_clear",
              "v_unlock", "v_user"}

\* this step is a step of worker p's verify of (ph, c)
VerifyStepOf(p, ph, c) ==
    \/ /\ procs[p].pc \in VerifyPcs /\ procs'[p] # procs[p]
       /\ procs[p].phone = ph /\ procs[p].code = c
    \/ /\ procs[p].pc = "idle" /\ procs'[p].pc = "v_get"
       /\ procs'[p].phone = ph /\ procs'[p].code = c
    \/ /\ procs[p].pc = "idle" /\ procs' = procs
       /\ resp'.kind = "verify" /\ resp'.phone = ph /\ resp'.code = c

\* C27: a step of a verify of (phone, c) leaves the failure counter and the
\* lockout flag of every other code of the phone as they are, and its branches
\* depend on the entries of (phone, c) alone: it is answered TooManyAttempts on
\* arrival exactly when the flag of (phone, c) is set, and goes to the lock
\* branch exactly when the counter of (phone, c) has reached the maximum.  So a
\* request answered TooManyAttempts has the flag of its own code set.
CountersPerCode ==
    [][\A p \in Workers, ph \in Phones, c \in Codes :
        VerifyStepOf(p, ph, c)
        => /\ \A c2 \in Codes \ {c} :
                /\ cache'[AttemptsKey(ph, c2)] = cache[AttemptsKey(ph, c2)]
                /\ cache'[LockKey(ph, c2)] = cache[LockKey(ph, c2)]
           /\ procs[p].pc = "idle"
                => (resp'.result = "TooManyAttempts"
                        <=> CacheGet(LockKey(ph, c), 0) # 0)
           /\ procs[p].pc = "v_get"
                => (procs'[p].pc = "v_setlock"
                        <=> CacheGet(AttemptsKey(ph, c), 0) >= MAX_VERIFY_ATTEMPTS)
           /\ resp'.result = "TooManyAttempts"
                => cache'[LockKey(ph, c)].exp > clock]_vars

\* as many failed guesses as the maximum, with pairwise distinct codes, have
\* been answered InvalidOrExpiredCode and no code of the phone is locked
DistinctGuessesWitness ==
    /\ resp.kind = "verify" /\ resp.result = "InvalidOrExpiredCode"
    /\ Cardinality({c \in Codes : CacheGet(AttemptsKey(resp.phone, c), 0) = 1})
            >= MAX_VERIFY_ATTEMPTS
    /\ \A c \in Codes : CacheGet(LockKey(resp.phone, c), 0) = 0

\* C28: a verify answers a token only in the last step of a request that holds a
\* row; a request comes to hold a row only by selecting a row of the submitted
\* phone and code that no request has marked and no other request holds, marks
\* it used in its next step and keeps it until it returns; a marked row is never
\* unmarked and its id is never given to another row.  So every token has its
\* own marked row.
TokenBackedByConsumption ==
    [][/\ resp'.result = "Verified"
            => \E p \in Workers :
                /\ procs[p].pc = "v_user" /\ procs'[p] = Idle
                /\ resp'.kind = "verify" /\ resp'.rec = procs[p].rec
                /\ resp'.phone = procs[p].phone /\ resp'.code = procs[p].code
       /\ \A p \in Workers :
            /\ (procs[p].pc # "v_mark" /\ procs'[p].pc = "v_mark")
                => LET o == otps[procs'[p].rec]
                   IN  /\ o.live /\ ~o.used /\ o.uses = 0
                       /\ o.phone = procs'[p].phone /\ o.code = procs'[p].code
                       /\ \A q \in Workers \ {p} :
                            procs[q].pc \in PastSelect => procs[q].rec # procs'[p].rec
            /\ (procs[p].pc = "v_mark" /\ procs'[p] # procs[p])
                => /\ procs'[p].pc = "v_clear"
                   /\ otps'[procs[p].rec].used /\ otps'[procs[p].rec].uses = 1
            /\ procs'[p].pc \in PastConsume
                => /\ procs[p].pc \in PastSelect
                   /\ procs'[p].rec = procs[p].rec /\ procs'[p].rec # 0
       /\ \A i \in Ids :
            /\ otps[i].uses = 1 => otps'[i].uses = 1 \/ otps'[i] = NoOtp
            /\ (i < nextId /\ ~otps[i].live) => ~otps'[i].live]_vars

\* a token has been answered for a consumed row while a concurrent verify of
\* the same phone and code is on its way to the failure response
TokenWitness ==
    /\ resp.kind = "verify" /\ resp.result = "Verified"
    /\ resp.rec # 0 /\ resp.uid # 0
    /\ \E q \in Workers :
        /\ procs[q].pc \in {"v_select", "v_fail"}
        /\ procs[q].phone = resp.phone /\ procs[q].code = resp.code

\* C29: a login changes no cache entry and no OTP row, and its answer is a
\* function of the user row, the password check and the requested role alone,
\* whatever the counters, the lockout flags, the OTP table and the logins before
\* it are: wrong credentials are answered InvalidCredentials, right ones for an
\* inactive user AccountDisabled, and right ones for an active user with no
\* requested role always get the token.
LoginIsolated ==
    [][\A p \in Workers, ph \in Phones, password_ok \in BOOLEAN, role \in AuthRoles :
        Login(p, ph, password_ok, role)
        => /\ UNCHANGED <<clock, cache, otps, nextId, users, procs, sent, tripped>>
           /\ resp'.kind = "login" /\ resp'.phone = ph
           /\ (users[ph] = NoUser \/ ~password_ok)
                => resp'.result = "InvalidCredentials"
           /\ (users[ph] # NoUser /\ password_ok /\ ~users[ph].is_active)
                => resp'.result = "AccountDisabled"
           /\ (users[ph] # NoUser /\ password_ok /\ users[ph].is_active)
                => /\ resp'.result \in {"LoggedIn", "AccessDenied"}
                   /\ role = NoRole => resp'.result = "LoggedIn"
                   /\ resp'.result = "LoggedIn" => resp'.uid = users[ph].id]_vars

\* a login with right credentials has got its token while the phone is at the
\* send limit and its code is locked out
LoginWhileLockedWitness ==
    /\ resp.kind = "login" /\ resp.result = "LoggedIn" /\ resp.uid # 0
    /\ CacheGet(RateKey(resp.phone), 0) >= MAX_OTP_PER_HOUR
    /\ \E c \in Codes : CacheGet(LockKey(resp.phone, c), 0) # 0

\* C30: under fair scheduling every request in flight returns (a login is
\* answered in the step in which it arrives), and a verify that waits for a
\* locked row gets past its select: it is granted the row, or finds no matching
\* row, or fails on several matching rows.  (The row lock is held between the
\* select and the commit of a request in flight, so none is held after a
\* return.)
EveryRequestReturns ==
    /\ \A p \in Workers : (procs[p].pc # "idle") ~> (procs[p].pc = "idle")
    /\ \A q \in Workers : WaitsForRow(q) ~> (procs[q].pc # "v_select")

\* a verify waits for the row that a concurrent verify holds locked
WaitingWitness == \E q \in Workers : WaitsForRow(q)

====
